---- MODULE Spec2Model ----
(***************************************************************************)
(* A model of better-sse: the SSE framing/parsing pipeline                 *)
(* (createSplitStream, createParseStream), the resumable iterator          *)
(* BetterSSEStream (connect, reconnect, close, next, return) and the       *)
(* validation of useSSEStream.                                             *)
(*                                                                         *)
(* Text is modelled as a sequence of one-character strings, so that a      *)
(* chunk boundary can fall anywhere, also inside a delimiter or a field    *)
(* name.                                                                   *)
(***************************************************************************)
EXTENDS Integers, Sequences, FiniteSets, TLC

VARIABLES
    \* ---- pipeline (one connection's Framer and Event Parser) ----
    doc,        \* the whole document the transport will deliver
    fed,        \* number of characters of doc already fed as chunks
    buffer,     \* createSplitStream: let buffer
    frames,     \* the frames enqueued so far by createSplitStream
    emitted,    \* the events enqueued so far by createParseStream
    flushed,    \* TRUE once the split stream's flush() has run
    cutInDelimiter, \* history: a chunk boundary fell between the two line
                \* breaks of a delimiter
    \* ---- BetterSSEStream ----
    options,    \* this.options, as normalised by useSSEStream
    retryCount, \* this.retryCount
    currentLastEventId, \* this.currentLastEventId
    stream,     \* this.stream: "null" or "set"
    reader,     \* this.reader: "null" or "set"
    aborted,    \* options.abortController.signal.aborted
    pc,         \* where the outstanding next() is suspended: "idle" (no
                \* pull outstanding), "fetch", "wait", "read"
    ctx,        \* the call of next() under which connect()/reconnect() runs:
                \* "first" (line 190), "done" (line 210), "catch" (line 238)
    result,     \* how the last pull settled
    \* ---- transport and server ----
    conn,       \* the processed stream of the latest connection: "none",
                \* "open", "ended", "cancelled", "errAbort", "errNet"
    queue,      \* events parsed and queued in the pipeline, not yet read
    srvNext,    \* number of the next event the server sends
    \* ---- history ----
    returned,   \* the numbers of the events returned by pulls, in order
    lastIdField,    \* id of the latest returned event that had an id field
    lastNonEmptyId, \* id of the latest returned event with a non-empty id
    allIds,     \* every returned event carried a non-empty id
    lastHeader, \* Last-Event-ID header of the connection attempt in flight
    lastDelay,  \* the delay of the backoff wait in progress
    nthRetry,   \* reconnect waits since the last established connection
    freshConn,  \* no event was returned yet from the current connection
    resumed,    \* some event was returned after a reconnect
    closeCalled, \* close() has been called
    pulled,     \* next() has been called
    reconnects, \* connection attempts made by reconnect(), counted up to
                \* MaxReconnects
    tries,      \* connection attempts of the latest pull since it last had
                \* a connection
    afterReturn, \* return() has been called between two pulls and has
                \* cancelled the reader, and no connection was opened since
    listeners,  \* 'abort' listeners of backoff waits registered on the
                \* signal, counted up to MaxListeners
    \* ---- one frame through the Event Parser ----
    frame,      \* the lines of the frame, each a record (see Lines)
    parsedDone, \* the frame has been handed to createParseStream
    parsedEvents, \* the events createParseStream enqueued for it
    \* ---- useSSEStream ----
    rawOptions, \* the options object the caller passes
    outcome     \* "none" (not called yet), "thrown" or "iterator"

pipeVars == <<doc, fed, buffer, frames, emitted, flushed, cutInDelimiter>>

iterVars == <<options, retryCount, currentLastEventId, stream, reader,
              aborted, pc, ctx, result, listeners>>

netVars == <<conn, queue, srvNext>>

histVars == <<returned, lastIdField, lastNonEmptyId, allIds, lastHeader, lastDelay, nthRetry, freshConn, resumed,
              closeCalled>>

countVars == <<pulled, reconnects, tries, afterReturn>>

frameVars == <<frame, parsedDone, parsedEvents>>

cfgVars == <<rawOptions, outcome>>

vars == <<pipeVars, iterVars, netVars, histVars, countVars, frameVars,
          cfgVars>>

(***************************************************************************)
(* Bounds                                                                  *)
(***************************************************************************)
MaxPieces == 4

\* Events the server has to send, numbered 1..NumEvents.
NumEvents == 3

\* Events the pipeline queues ahead of the consumer.
MaxQueue == 1

\* Consecutive failed connection attempts the transport produces.
RetryCap == 6

\* The same once an event has been returned.
RetryCapResumed == 3

\* Reconnect attempts counted over the life of an iterator.
MaxReconnects == 2

\* Abort listeners counted on the signal.
MaxListeners == 2

(***************************************************************************)
(* Strings                                                                 *)
(***************************************************************************)
NL == "\n"

\* The NUL character U+0000, which TLA+ strings cannot spell.
NUL == "U+0000"

Whitespace == {" ", "\n", "\t", "\r"}

DigitChars == <<"0", "1", "2", "3", "4", "5", "6", "7", "8", "9">>

IsDigit(c) == \E i \in 1..10 : DigitChars[i] = c

DigitValue(c) == (CHOOSE i \in 1..10 : DigitChars[i] = c) - 1

\* String.prototype.indexOf(sub) from position `from` (1-based); 0 when absent.
RECURSIVE IndexOfFrom(_, _, _)
IndexOfFrom(s, sub, from) ==
    IF from + Len(sub) - 1 > Len(s) THEN 0
    ELSE IF SubSeq(s, from, from + Len(sub) - 1) = sub THEN from
    ELSE IndexOfFrom(s, sub, from + 1)

\* String.prototype.split(sep): the pieces between the non-overlapping
\* occurrences of sep found left to right; always at least one piece.
RECURSIVE StrSplit(_, _)
StrSplit(s, sep) ==
    LET i == IndexOfFrom(s, sep, 1)
    IN  IF i = 0 THEN <<s>>
        ELSE <<SubSeq(s, 1, i - 1)>>
             \o StrSplit(SubSeq(s, i + Len(sep), Len(s)), sep)

\* String.prototype.startsWith(c) for a one-character c.
StartsWith(s, c) == Len(s) > 0 /\ s[1] = c

\* Array.prototype.join(sep)
RECURSIVE StrJoin(_, _)
StrJoin(parts, sep) ==
    IF Len(parts) = 0 THEN << >>
    ELSE IF Len(parts) = 1 THEN parts[1]
    ELSE parts[1] \o sep \o StrJoin(Tail(parts), sep)

\* utils.ts isValidString: a string that is not blank after trimming.
IsValidString(s) == \E i \in 1..Len(s) : s[i] \notin Whitespace

\* Number.parseInt(value, 10): leading white space is skipped, then an
\* optional sign, then the longest run of digits; << >> stands for NaN and
\* <<n>> for the number n.
RECURSIVE SkipWhitespace(_)
SkipWhitespace(s) ==
    IF Len(s) > 0 /\ s[1] \in Whitespace THEN SkipWhitespace(Tail(s)) ELSE s

RECURSIVE DigitsPrefix(_, _, _)
DigitsPrefix(s, acc, seen) ==
    IF Len(s) > 0 /\ IsDigit(s[1])
    THEN DigitsPrefix(Tail(s), acc * 10 + DigitValue(s[1]), TRUE)
    ELSE IF seen THEN <<acc>> ELSE << >>

ParseInt(value) ==
    LET t    == SkipWhitespace(value)
        neg  == StartsWith(t, "-")
        body == IF StartsWith(t, "-") \/ StartsWith(t, "+") THEN Tail(t) ELSE t
        mag  == DigitsPrefix(body, 0, FALSE)
    IN  IF mag = << >> THEN << >>
        ELSE IF neg THEN <<0 - mag[1]>> ELSE mag

(***************************************************************************)
(* createParseStream                                                       *)
(***************************************************************************)
F_event == <<"e", "v", "e", "n", "t">>
F_data  == <<"d", "a", "t", "a">>
F_id    == <<"i", "d">>
F_retry == <<"r", "e", "t", "r", "y">>
DefaultEvent == <<"m", "e", "s", "s", "a", "g", "e">>

\* The accumulator of one frame: event, data (a list of values), id and
\* retry; << >> stands for undefined, <<v>> for the value v.
ParseStart == [event |-> DefaultEvent, data |-> << >>, id |-> << >>, retry |-> << >>]

\* The value with every leading space removed.
RECURSIVE FieldValueTrimmed(_, _)
FieldValueTrimmed(line, colonIndex) ==
    IF colonIndex < Len(line) /\ line[colonIndex + 1] = " "
    THEN FieldValueTrimmed(line, colonIndex + 1)
    ELSE SubSeq(line, colonIndex + 1, Len(line))

\* The value of a field line: the remainder after the first colon, with one
\* leading space removed.
FieldValue(line, colonIndex) ==
    LET raw == SubSeq(line, colonIndex + 1, Len(line))
    IN  IF StartsWith(raw, " ") THEN Tail(raw) ELSE raw

\* data.unshift(value)
PushDataFront(data, value) == <<value>> \o data

\* data.push(value), line 338.
PushData(data, value) == Append(data, value)

\* Every id value taken.
IdAcceptedAlways(value) == TRUE

\* Line 341: an id value is taken unless it contains U+0000.
IdAccepted(value) == ~\E i \in 1..Len(value) : value[i] = NUL

\* One iteration of the loop over the lines of a frame.
ParseLine(acc, line) ==
    IF Len(line) = 0 \/ StartsWith(line, ":") THEN acc
    ELSE
      LET colonIndex == IndexOfFrom(line, <<":">>, 1)
      IN  IF colonIndex = 0 THEN acc
          ELSE
            LET field == SubSeq(line, 1, colonIndex - 1)
                value == FieldValue(line, colonIndex)
            IN  IF field = F_event THEN [acc EXCEPT !.event = value]
                ELSE IF field = F_data
                  THEN [acc EXCEPT !.data = PushData(acc.data, value)]
                ELSE IF field = F_id
                  THEN IF IdAccepted(value)
                       THEN [acc EXCEPT !.id = <<value>>]
                       ELSE acc
                ELSE IF field = F_retry
                  THEN IF ParseInt(value) = << >>
                       THEN acc
                       ELSE [acc EXCEPT !.retry = ParseInt(value)]
                ELSE acc

RECURSIVE ParseLines(_, _)
ParseLines(acc, lines) ==
    IF Len(lines) = 0 THEN acc
    ELSE ParseLines(ParseLine(acc, Head(lines)), Tail(lines))

\* A message is sent when any of data and id was set.
HasDataOrId(acc) == Len(acc.data) > 0 \/ acc.id # << >>

\* Line 355: a message is sent only when there is data.
HasData(acc) == Len(acc.data) > 0

\* transform(partChunk): the events enqueued for one frame (none or one).
ParseTransform(partChunk) ==
    LET acc == ParseLines(ParseStart, StrSplit(partChunk, <<NL>>))
    IN  IF HasData(acc)
        THEN <<[event |-> acc.event,
                data  |-> StrJoin(acc.data, <<NL>>),
                id    |-> acc.id,
                retry |-> acc.retry]>>
        ELSE << >>

RECURSIVE ParseFrames(_)
ParseFrames(parts) ==
    IF Len(parts) = 0 THEN << >>
    ELSE ParseTransform(Head(parts)) \o ParseFrames(Tail(parts))

(***************************************************************************)
(* createSplitStream                                                       *)
(***************************************************************************)
Delimiter == <<NL, NL>>

RECURSIVE ValidOnly(_)
ValidOnly(parts) ==
    IF Len(parts) = 0 THEN << >>
    ELSE (IF IsValidString(Head(parts)) THEN <<Head(parts)>> ELSE << >>)
         \o ValidOnly(Tail(parts))

\* The part of the split buffer kept for the next chunk.
SplitKeepDropped(parts) == << >>

\* The buffer never emptied.
SplitKeepAll(parts) == StrJoin(parts, Delimiter)

SplitKeep(parts) == parts[Len(parts)]

\* transform(chunk): the frames enqueued and the new buffer.
SplitTransform(buf, chunk) ==
    LET parts == StrSplit(buf \o chunk, Delimiter)
    IN  [frames |-> ValidOnly(SubSeq(parts, 1, Len(parts) - 1)),
         buffer |-> SplitKeep(parts)]

\* flush() that enqueues nothing.
SplitFlushNothing(buf) == << >>

\* flush(): the frames enqueued when the stream ends.
SplitFlush(buf) == IF IsValidString(buf) THEN <<buf>> ELSE << >>

(***************************************************************************)
(* useSSEStream: the normalised options                                    *)
(***************************************************************************)
\* An optional value (string | undefined): << >> is undefined, <<v>> is v.
Undefined == << >>

Some(v) == <<v>>

\* JavaScript truthiness of an optional string: defined and not empty.
Truthy(o) == o # Undefined /\ o[1] # << >>

\* Number.POSITIVE_INFINITY, above every count the model reaches.
Infinity == 999999

DefaultInitialRetryDelay == 1000

DefaultMaxRetryDelay == 30000

\* The id the server gives event number n (its decimal spelling).
IdOf(n) == <<DigitChars[n + 1]>>

\* The options objects useSSEStream hands to the constructor. maxRetries is
\* read only when retryStrategy is set, so it varies only then.
AllOptions ==
    { [retryStrategy      |-> rs,
       maxRetries         |-> mr,
       hasAbortController |-> ac,
       lastEventId        |-> le,
       initialRetryDelay  |-> d[1],
       maxRetryDelay      |-> d[2]] :
         rs \in BOOLEAN,
         mr \in {0, 1, 2, Infinity},
         ac \in BOOLEAN,
         le \in {Undefined, Some(<< >>), Some(IdOf(1))},
         d  \in {<<DefaultInitialRetryDelay, DefaultMaxRetryDelay>>,
                 <<100, 1000>>} }

\* The options of useSSEStream({url}): every default applied.
DefaultOptions ==
    [retryStrategy      |-> TRUE,
     maxRetries         |-> Infinity,
     hasAbortController |-> FALSE,
     lastEventId        |-> Undefined,
     initialRetryDelay  |-> DefaultInitialRetryDelay,
     maxRetryDelay      |-> DefaultMaxRetryDelay]

\* The second pair of delays goes with unbounded retries only, and so
\* does the empty lastEventId, which is read as a missing one.
Options ==
    {o \in AllOptions :
        /\ o.retryStrategy \/ o.maxRetries = Infinity
        /\ \/ o.initialRetryDelay = DefaultInitialRetryDelay
           \/ /\ o.retryStrategy
              /\ o.maxRetries = Infinity
              /\ o.lastEventId = Undefined
        /\ o.lastEventId = Some(<< >>)
             => /\ o.retryStrategy
                /\ o.maxRetries = Infinity
                /\ ~o.hasAbortController}

(***************************************************************************)
(* BetterSSEStream                                                         *)
(***************************************************************************)
Min(a, b) == IF a < b THEN a ELSE b

\* Math.pow(2, n) for n >= 0
RECURSIVE Pow2(_)
Pow2(n) == IF n <= 0 THEN 1 ELSE 2 * Pow2(n - 1)

\* shouldRetry() with the bound included.
ShouldRetryInclusive(rc) == rc <= options.maxRetries

\* shouldRetry(), with retryCount = rc
ShouldRetry(rc) == rc < options.maxRetries

\* reconnect(): the delay, with the incremented retryCount = rc
DelayFromComment(rc) ==
    Min(options.initialRetryDelay * Pow2(rc), options.maxRetryDelay)

Delay(rc) ==
    Min(options.initialRetryDelay * Pow2(rc - 1), options.maxRetryDelay)

\* connect(): the Last-Event-ID header of the request (Undefined: not sent)
LastEventIdHeaderConfigured ==
    IF Truthy(options.lastEventId) THEN options.lastEventId ELSE Undefined

LastEventIdHeader ==
    IF Truthy(currentLastEventId) THEN currentLastEventId ELSE Undefined

\* next(): this.currentLastEventId after an event was read
UpdateLastEventIdFirstOnly(value) ==
    IF Truthy(value.id) /\ ~Truthy(currentLastEventId)
    THEN value.id ELSE currentLastEventId

\* The cursor takes the id of the event, whatever it is.
UpdateLastEventIdAlways(value) == value.id

UpdateLastEventId(value) ==
    IF Truthy(value.id) THEN value.id ELSE currentLastEventId

\* How a pull settles.
NoResult == [kind |-> "none", err |-> ""]
EventResult == [kind |-> "event", err |-> ""]
DoneResult == [kind |-> "end", err |-> ""]
Thrown(e) == [kind |-> "throw", err |-> e]

\* The fields a step of next() may change, as one record.
Cur ==
    [retryCount |-> retryCount, stream |-> stream, reader |-> reader,
     pc |-> pc, ctx |-> ctx, result |-> result,
     lastDelay |-> lastDelay, nthRetry |-> nthRetry,
     listeners |-> listeners]

Apply(s) ==
    /\ retryCount' = s.retryCount
    /\ stream' = s.stream
    /\ reader' = s.reader
    /\ pc' = s.pc
    /\ ctx' = s.ctx
    /\ result' = s.result
    /\ lastDelay' = s.lastDelay
    /\ nthRetry' = s.nthRetry
    /\ listeners' = s.listeners

\* next() returns or rejects.
Settle(s, res) ==
    [s EXCEPT !.pc = "idle", !.ctx = "none", !.result = res, !.lastDelay = 0]

RECURSIVE Throw(_, _)

\* signal.addEventListener('abort', onAbort, { once: true }), line 159:
\* nothing is registered without an abortController.
AddAbortListener(n) ==
    IF options.hasAbortController THEN Min(n + 1, MaxListeners) ELSE n

\* reconnect() that does not look at the signal before it waits.
ReconnectNoAbortCheck(s, root) ==
    [s EXCEPT !.retryCount = s.retryCount + 1,
              !.ctx = root,
              !.pc = "wait",
              !.lastDelay = Delay(s.retryCount + 1),
              !.nthRetry = s.nthRetry + 1]

\* reconnect() up to its await of the timer, called under `root`.
Reconnect(s, root) ==
    LET rc == s.retryCount + 1
        s1 == [s EXCEPT !.retryCount = rc, !.ctx = root]
    IN  IF options.hasAbortController /\ aborted
        THEN Throw(s1, "AbortError")
        ELSE [s1 EXCEPT !.pc = "wait",
                        !.lastDelay = Delay(rc),
                        !.nthRetry = s.nthRetry + 1,
                        !.listeners = AddAbortListener(s.listeners)]

\* A catch block that ends the sequence whatever the error.
CatchHandlerNoRetry(s, err) == Settle([s EXCEPT !.reader = "null"], DoneResult)

\* next(): the catch block of the read, lines 224-252.
CatchHandler(s, err) ==
    IF err # "AbortError"
    THEN IF options.retryStrategy /\ ShouldRetry(s.retryCount)
         THEN Reconnect([s EXCEPT !.reader = "null", !.stream = "null"],
                        "catch")
         ELSE Settle([s EXCEPT !.reader = "null"], DoneResult)
    ELSE Settle([s EXCEPT !.reader = "null"], DoneResult)

\* An exception leaving connect() or reconnect(): the call at line 210 is
\* inside next()'s try block, the calls at lines 190 and 238 are not.
Throw(s, err) ==
    IF s.ctx = "done" THEN CatchHandler(s, err) ELSE Settle(s, Thrown(err))

\* A catch block of connect() that reconnects without asking shouldRetry().
ConnectCatchAlwaysRetries(s, err) == Reconnect(s, s.ctx)

\* connect(): the catch block, lines 110-119. Every error that reaches it
\* (a TypeError of fetch, the Errors of lines 89 and 93, the DOMException
\* of an abort) is an instance of Error.
ConnectCatch(s, err) ==
    IF options.retryStrategy /\ ShouldRetry(s.retryCount)
    THEN Reconnect(s, s.ctx)
    ELSE Throw(s, err)

\* A done branch that ends the sequence.
ReadDoneHandlerNoRetry(s) == Settle([s EXCEPT !.reader = "null"], DoneResult)

\* next(): the stream has ended, lines 203-216 (this.reader is not null).
ReadDoneHandler(s) ==
    IF options.retryStrategy /\ ShouldRetry(s.retryCount)
    THEN Reconnect([s EXCEPT !.reader = "null", !.stream = "null"], "done")
    ELSE Settle([s EXCEPT !.reader = "null"], DoneResult)

\* connect() that leaves the retry count as it is.
RetryCountKept == retryCount

\* connect(), line 97: the retry count after a successful connection.
RetryCountOnSuccess == 0

\* A continuation of the suspended pull is ready to run: the run-to-
\* completion of promise reactions lets no other task in before it.
Ready ==
    \/ pc = "read" /\ (queue # << >> \/ conn # "open")
    \/ pc \in {"fetch", "wait"} /\ aborted

\* The fields of a new iterator that a constructor could set otherwise.
ConstructedRest(o) ==
    /\ options = o
    /\ retryCount = 0
    /\ currentLastEventId = options.lastEventId
    /\ stream = "null"
    /\ reader = "null"
    /\ aborted = FALSE
    /\ result = NoResult
    /\ conn = "none"
    /\ queue = << >>
    /\ srvNext = 1
    /\ returned = << >>
    /\ lastIdField = Undefined
    /\ lastNonEmptyId = Undefined
    /\ allIds = TRUE
    /\ lastHeader = Undefined
    /\ lastDelay = 0
    /\ nthRetry = 0
    /\ freshConn = FALSE
    /\ resumed = FALSE
    /\ closeCalled = FALSE
    /\ pulled = FALSE
    /\ reconnects = 0
    /\ tries = 0
    /\ afterReturn = FALSE
    /\ listeners = 0

\* A constructor that starts connecting at once.
ConstructedConnecting(o) ==
    /\ ConstructedRest(o)
    /\ pc = "fetch"
    /\ ctx = "first"

\* new BetterSSEStream(o), lines 53-62: no method is called.
Constructed(o) ==
    /\ ConstructedRest(o)
    /\ pc = "idle"
    /\ ctx = "none"

PipeIdle ==
    /\ doc = << >>
    /\ fed = 0
    /\ buffer = << >>
    /\ frames = << >>
    /\ emitted = << >>
    /\ flushed = FALSE
    /\ cutInDelimiter = FALSE

\* No frame is being parsed on its own.
FrameIdle ==
    /\ frame = << >>
    /\ parsedDone = FALSE
    /\ parsedEvents = << >>

\* useSSEStream has returned the iterator.
Created ==
    /\ rawOptions = Undefined
    /\ outcome = "iterator"

Init ==
    /\ PipeIdle
    /\ FrameIdle
    /\ Created
    /\ \E o \in Options : Constructed(o)

\* The consumer calls next(): lines 187-201, up to the first await.
Pull ==
    /\ pc = "idle"
    /\ retryCount < RetryCap
    /\ IF reader = "null" /\ stream = "null"
       THEN /\ pc' = "fetch"
            /\ ctx' = "first"
            /\ lastHeader' = LastEventIdHeader
            /\ UNCHANGED reader
       ELSE /\ pc' = "read"
            /\ reader' = "set"
            /\ UNCHANGED <<ctx, lastHeader>>
    /\ UNCHANGED listeners
    /\ UNCHANGED <<options, retryCount, currentLastEventId, stream, aborted,
                   result, returned, lastIdField, lastNonEmptyId, allIds, lastDelay, nthRetry, freshConn, resumed,
                   closeCalled>>
    /\ UNCHANGED <<netVars, pipeVars>>
    /\ pulled' = TRUE
    /\ tries' = IF reader = "null" /\ stream = "null" THEN 1 ELSE 0
    /\ UNCHANGED <<reconnects, afterReturn, frameVars, cfgVars>>

\* fetch resolves with a 2xx response that has a body: connect() lines
\* 96-107, then next() takes the reader and reads (lines 193-201).
FetchOk ==
    /\ pc = "fetch"
    /\ ~aborted
    /\ retryCount' = RetryCountOnSuccess
    /\ stream' = "set"
    /\ reader' = "set"
    /\ pc' = "read"
    /\ conn' = "open"
    /\ queue' = << >>
    /\ srvNext' = IF Truthy(lastHeader) THEN ParseInt(lastHeader[1])[1] + 1
                                        ELSE 1
    /\ nthRetry' = 0
    /\ freshConn' = TRUE
    /\ ctx' = "none"
    /\ lastHeader' = Undefined
    /\ UNCHANGED listeners
    /\ UNCHANGED <<options, currentLastEventId, aborted, result, returned,
                   lastIdField, lastNonEmptyId, allIds, lastDelay, resumed,
                   closeCalled>>
    /\ UNCHANGED pipeVars
    /\ tries' = 0
    /\ afterReturn' = FALSE
    /\ UNCHANGED <<pulled, reconnects, frameVars, cfgVars>>

\* fetch rejects, or the response is not ok or has no body.
FetchFail ==
    /\ pc = "fetch"
    /\ ~aborted
    /\ retryCount < (IF returned = << >> THEN RetryCap ELSE RetryCapResumed)
    /\ Apply(ConnectCatch(Cur, "Error"))
    /\ lastHeader' = Undefined
    /\ UNCHANGED <<options, currentLastEventId, aborted, returned,
                   lastIdField, lastNonEmptyId, allIds, freshConn, resumed,
                   closeCalled>>
    /\ UNCHANGED <<netVars, pipeVars>>
    /\ UNCHANGED <<countVars, frameVars, cfgVars>>

\* fetch rejects with an AbortError: the signal is aborted.
FetchAbort ==
    /\ pc = "fetch"
    /\ aborted
    /\ Apply(ConnectCatch(Cur, "AbortError"))
    /\ lastHeader' = Undefined
    /\ UNCHANGED <<options, currentLastEventId, aborted, returned,
                   lastIdField, lastNonEmptyId, allIds, freshConn, resumed,
                   closeCalled>>
    /\ UNCHANGED <<netVars, pipeVars>>
    /\ UNCHANGED <<countVars, frameVars, cfgVars>>

\* The backoff timer fires: reconnect() goes on to connect().
TimerFire ==
    /\ pc = "wait"
    /\ ~aborted
    /\ pc' = "fetch"
    /\ lastHeader' = LastEventIdHeader
    /\ lastDelay' = 0
    /\ UNCHANGED listeners
    /\ UNCHANGED <<options, retryCount, currentLastEventId, stream, reader,
                   aborted, ctx, result, returned, lastIdField,
                   lastNonEmptyId, allIds, nthRetry, freshConn, resumed,
                   closeCalled>>
    /\ UNCHANGED <<netVars, pipeVars>>
    /\ reconnects' = Min(reconnects + 1, MaxReconnects)
    /\ tries' = tries + 1
    /\ UNCHANGED <<pulled, afterReturn, frameVars, cfgVars>>

\* The abort listener of the backoff wait rejects the wait.
WaitAbort ==
    /\ pc = "wait"
    /\ aborted
    /\ Apply(Throw(Cur, "AbortError"))
    /\ UNCHANGED <<options, currentLastEventId, aborted, returned, lastIdField, lastNonEmptyId, allIds, lastHeader,
                   freshConn, resumed, closeCalled>>
    /\ UNCHANGED <<netVars, pipeVars>>
    /\ UNCHANGED <<countVars, frameVars, cfgVars>>

\* reader.read() resolves with an event: lines 218-223.
ReadEvent ==
    /\ pc = "read"
    /\ queue # << >>
    /\ currentLastEventId' = UpdateLastEventId(Head(queue))
    /\ returned' = Append(returned, Head(queue).n)
    /\ lastIdField' = IF Head(queue).id # Undefined THEN Head(queue).id
                                                    ELSE lastIdField
    /\ lastNonEmptyId' = IF Truthy(Head(queue).id) THEN Head(queue).id
                                                   ELSE lastNonEmptyId
    /\ allIds' = (allIds /\ Truthy(Head(queue).id))
    /\ queue' = Tail(queue)
    /\ pc' = "idle"
    /\ result' = EventResult
    /\ freshConn' = FALSE
    /\ resumed' = (resumed \/ (freshConn /\ returned # << >>))
    /\ UNCHANGED listeners
    /\ UNCHANGED <<options, retryCount, stream, reader, aborted, ctx,
                   lastHeader, lastDelay, nthRetry, closeCalled>>
    /\ UNCHANGED <<conn, srvNext, pipeVars>>
    /\ UNCHANGED <<countVars, frameVars, cfgVars>>

\* reader.read() resolves with done: lines 203-216. After close() has set
\* this.reader to null, this.reader.releaseLock() throws a TypeError, which
\* the catch block of the same try handles.
ReadDone ==
    /\ pc = "read"
    /\ queue = << >>
    /\ conn \in {"ended", "cancelled"}
    /\ IF reader = "null"
       THEN Apply(CatchHandler(Cur, "TypeError"))
       ELSE Apply(ReadDoneHandler(Cur))
    /\ UNCHANGED <<options, currentLastEventId, aborted, returned, lastIdField, lastNonEmptyId, allIds, lastHeader,
                   freshConn, resumed, closeCalled>>
    /\ UNCHANGED <<netVars, pipeVars>>
    /\ UNCHANGED <<countVars, frameVars, cfgVars>>

\* reader.read() rejects: the stream is errored.
ReadError ==
    /\ pc = "read"
    /\ conn \in {"errAbort", "errNet"}
    /\ Apply(CatchHandler(Cur, IF conn = "errAbort" THEN "AbortError"
                                                    ELSE "NetworkError"))
    /\ UNCHANGED <<options, currentLastEventId, aborted, returned, lastIdField, lastNonEmptyId, allIds, lastHeader,
                   freshConn, resumed, closeCalled>>
    /\ UNCHANGED <<netVars, pipeVars>>
    /\ UNCHANGED <<countVars, frameVars, cfgVars>>

\* The fields close() reads and writes, as one record.
Here ==
    [aborted |-> aborted, conn |-> conn, queue |-> queue,
     stream |-> stream, reader |-> reader]

\* close() that only forgets the stream and the reader.
AfterCloseNoCancel(s) ==
    [s EXCEPT !.stream = "null", !.reader = "null"]

\* close() that forgets the stream and the reader only when there is
\* nothing left to cancel.
AfterCloseCancelLate(s) ==
    IF s.reader = "set" /\ s.conn \in {"open", "ended"}
    THEN [s EXCEPT !.aborted = (s.aborted \/ options.hasAbortController),
                   !.conn = "cancelled", !.queue = << >>]
    ELSE [s EXCEPT !.aborted = (s.aborted \/ options.hasAbortController),
                   !.stream = "null", !.reader = "null"]

\* close(): lines 168-173. reader.cancel() closes the processed stream and
\* resolves its pending read with done; without a reader, abort() errors
\* the response body.
AfterClose(s) ==
    LET c == IF s.reader = "set" /\ s.conn \in {"open", "ended"}
               THEN "cancelled"
             ELSE IF options.hasAbortController /\ s.conn = "open"
               THEN "errAbort"
             ELSE s.conn
    IN  [aborted |-> (s.aborted \/ options.hasAbortController),
         conn    |-> c,
         queue   |-> IF c # s.conn THEN << >> ELSE s.queue,
         stream  |-> "null",
         reader  |-> "null"]

\* The consumer calls close().
Close ==
    /\ ~Ready
    /\ aborted' = AfterClose(Here).aborted
    /\ conn' = AfterClose(Here).conn
    /\ queue' = AfterClose(Here).queue
    /\ stream' = AfterClose(Here).stream
    /\ reader' = AfterClose(Here).reader
    /\ closeCalled' = TRUE
    /\ listeners' = IF options.hasAbortController THEN 0 ELSE listeners
    /\ UNCHANGED <<options, retryCount, currentLastEventId, pc, ctx, result,
                   srvNext, returned, lastIdField, lastNonEmptyId, allIds, lastHeader, lastDelay, nthRetry,
                   freshConn, resumed>>
    /\ UNCHANGED pipeVars
    /\ UNCHANGED <<countVars, frameVars, cfgVars>>

\* The consumer calls return(): lines 258-265. reader.cancel() closes the
\* processed stream and resolves a pending read with done, whose
\* continuation in next() runs before return() resumes: return() then
\* finds this.reader null. On an errored stream reader.cancel() rejects
\* and return() stops there.
Return ==
    /\ ~Ready
    /\ IF reader = "set" /\ conn \notin {"errAbort", "errNet"}
       THEN /\ conn' = "cancelled"
            /\ queue' = << >>
            /\ reader' = IF pc = "read" THEN reader ELSE "null"
            /\ afterReturn' = (afterReturn \/ pc = "idle")
       ELSE UNCHANGED <<conn, queue, reader, afterReturn>>
    /\ UNCHANGED listeners
    /\ UNCHANGED <<options, retryCount, currentLastEventId, stream, aborted,
                   pc, ctx, result, srvNext>>
    /\ UNCHANGED <<histVars, pipeVars, pulled, reconnects, tries, frameVars,
                   cfgVars>>

\* The holder of the abortController calls abort(): the response body is
\* errored and the error runs down the pipe.
Abort ==
    /\ ~Ready
    /\ options.hasAbortController
    /\ ~aborted
    /\ aborted' = TRUE
    /\ conn' = IF conn = "open" THEN "errAbort" ELSE conn
    /\ queue' = IF conn = "open" THEN << >> ELSE queue
    /\ listeners' = 0
    /\ UNCHANGED <<options, retryCount, currentLastEventId, stream, reader,
                   pc, ctx, result, srvNext>>
    /\ UNCHANGED <<histVars, pipeVars>>
    /\ UNCHANGED <<countVars, frameVars, cfgVars>>

\* The pipe without any queueing limit.
BackpressureNever == FALSE

\* The pipe of connect(), three transform streams with the default
\* queuing strategies: the chunks it takes from the response ahead of the
\* consumer's reads are limited by the stages' queues.
Backpressure == Len(queue) >= MaxQueue

\* The server writes its next event (server.js lines 27-46); the event
\* is parsed and queued. An event may come without an id line or with an
\* empty one.
ServerSend ==
    /\ ~Ready
    /\ conn = "open"
    /\ srvNext <= NumEvents
    /\ ~Backpressure
    /\ Len(returned) + Len(queue) <= NumEvents
    /\ \E id \in {Undefined, Some(<< >>), Some(IdOf(srvNext))} :
         queue' = Append(queue, [n |-> srvNext, id |-> id])
    /\ srvNext' = srvNext + 1
    /\ UNCHANGED conn
    /\ UNCHANGED <<iterVars, histVars, pipeVars>>
    /\ UNCHANGED <<countVars, frameVars, cfgVars>>

\* The server ends the response after a complete frame.
ServerEnd ==
    /\ ~Ready
    /\ conn = "open"
    /\ conn' = "ended"
    /\ UNCHANGED <<queue, srvNext>>
    /\ UNCHANGED <<iterVars, histVars, pipeVars>>
    /\ UNCHANGED <<countVars, frameVars, cfgVars>>

\* The connection breaks: the body, and with it the pipe, is errored.
NetError ==
    /\ ~Ready
    /\ conn = "open"
    /\ conn' = "errNet"
    /\ queue' = << >>
    /\ UNCHANGED srvNext
    /\ UNCHANGED <<iterVars, histVars, pipeVars>>
    /\ UNCHANGED <<countVars, frameVars, cfgVars>>

Next ==
    \/ Pull
    \/ FetchOk
    \/ FetchFail
    \/ FetchAbort
    \/ TimerFire
    \/ WaitAbort
    \/ ReadEvent
    \/ ReadDone
    \/ ReadError
    \/ Close
    \/ Return
    \/ Abort
    \/ ServerSend
    \/ ServerEnd
    \/ NetError

Spec == Init /\ [][Next]_vars

\* An iterator with retry enabled and a finite maxRetries, on a transport
\* whose every connection attempt fails (fetch rejects, or the response is
\* not ok or has no body: connect() lines 82-94).
FailInit ==
    /\ PipeIdle
    /\ FrameIdle
    /\ Created
    /\ \E o \in {x \in AllOptions :
                    x.retryStrategy /\ x.maxRetries # Infinity} :
         Constructed(o)

FailNext ==
    \/ Pull
    \/ FetchFail
    \/ TimerFire

FailSpec == FailInit /\ [][FailNext]_vars

(***************************************************************************)
(* Properties of the iterator                                              *)
(***************************************************************************)
\* The number of the first event the server sends on the first connection.
FirstEvent ==
    IF Truthy(options.lastEventId)
    THEN ParseInt(options.lastEventId[1])[1] + 1
    ELSE 1

\* C2: against a server that resumes after the Last-Event-ID it receives,
\* and as long as every returned event carried a non-empty id, the events
\* returned by the pulls are the server's events in order, none dropped,
\* duplicated or reordered, across any number of reconnects.
C2_NoDropNoDuplicate ==
    allIds => \A i \in 1..Len(returned) : returned[i] = FirstEvent + i - 1

\* Events were returned before and after an automatic reconnect.
C2_Witness ==
    /\ options.retryStrategy
    /\ ~closeCalled
    /\ resumed
    /\ allIds
    /\ returned = <<1, 2, 3>>

\* The header a connection attempt is to carry: the id of the latest
\* returned event with a non-empty id, else the configured lastEventId
\* (an empty one counts as not given), else no header.
ExpectedHeader ==
    IF lastNonEmptyId # Undefined THEN lastNonEmptyId
    ELSE IF Truthy(options.lastEventId) THEN options.lastEventId
    ELSE Undefined

\* C3: every connection attempt sends as Last-Event-ID the id of the most
\* recently returned event that had a non-empty id; before any such event
\* it sends the configured lastEventId, or no header when none was given.
C3_HeaderIsLatestId == pc = "fetch" => lastHeader = ExpectedHeader

\* Ids 1 and then 2 were returned, and the reconnect sends 2.
C3_Witness ==
    /\ pc = "fetch"
    /\ returned = <<1, 2>>
    /\ allIds
    /\ lastHeader = Some(IdOf(2))

\* C4: the cursor is the id of the most recently returned event that
\* carried an id field, or the configured lastEventId when no returned
\* event carried one; events still queued never change it.
C4_CursorIsLatestIdField ==
    currentLastEventId =
        (IF lastIdField # Undefined THEN lastIdField ELSE options.lastEventId)

\* C5: no pull rejects because of a transport error (a failed connection
\* attempt or a failed read): such a pull resolves as end-of-sequence.
C5_NoTransportErrorThrown ==
    ~(result.kind = "throw" /\ result.err \in {"Error", "NetworkError"})

\* C6: once the supplied abortController has been triggered, every pull
\* that settles (the suspended one and all later ones) resolves as
\* end-of-sequence; none rejects.
C6_AbortEndsEveryPull ==
    [][(aborted /\ ~closeCalled /\ pc # "idle" /\ pc' = "idle")
         => result' = DoneResult]_vars

\* C7: a pull suspended in a backoff wait when the abortController is
\* triggered resolves as end-of-sequence at once, with no connection
\* attempt after the wait, whatever started the wait.
C7_AbortDuringWaitEndsPull ==
    [][(pc = "wait" /\ aborted /\ ~closeCalled /\ pc' # "wait")
         => (pc' = "idle" /\ result' = DoneResult)]_vars

\* C8: a pull suspended in a stream read when close() is called resolves
\* as end-of-sequence: it does not reject, and no backoff wait or
\* reconnect starts.
C8_CloseDuringReadEndsPull ==
    [][(pc = "read" /\ reader = "null" /\ pc' # "read")
         => (pc' = "idle" /\ result' = DoneResult)]_vars

\* C9: without an abortController, a pull suspended in a backoff wait or
\* in a connection attempt after close() has been called resolves as
\* end-of-sequence, and no connection is opened after close().
C9_CloseCancelsWithoutController ==
    [][(closeCalled /\ ~options.hasAbortController
          /\ pc \in {"wait", "fetch"} /\ pc' # pc)
         => (pc' = "idle" /\ result' = DoneResult)]_vars

\* The delays of the documented example, for n = 1..6.
ExampleDelays == <<1000, 2000, 4000, 8000, 16000, 30000>>

C11_OneAttemptThenEnd ==
    [][(/\ options.retryStrategy
        /\ options.maxRetries = 0
        /\ ~aborted
        /\ ~closeCalled
        /\ result = NoResult
        /\ pc = "fetch"
        /\ pc' # "fetch"
        /\ conn' = "none")
         => (/\ pc' = "idle"
             /\ result' = DoneResult
             /\ nthRetry' = 0
             /\ reconnects' = 0)]_vars

\* C12: with retry enabled and maxRetries = N finite, an iterator makes at
\* most N reconnect attempts over its whole life.
C12_LifetimeReconnectCap ==
    (options.retryStrategy /\ options.maxRetries # Infinity)
        => reconnects <= options.maxRetries

\* C12 as amended: with retry enabled and maxRetries = N finite, at most N
\* backoff waits, and so at most N reconnect attempts, follow one another
\* without an established connection in between.
C12_ConsecutiveReconnectCap ==
    (options.retryStrategy /\ options.maxRetries # Infinity)
        => nthRetry <= options.maxRetries

\* With maxRetries = 1: a second reconnect attempt, the first one since the
\* connection that the first reconnect established.
C12_Witness ==
    /\ options.retryStrategy
    /\ options.maxRetries = 1
    /\ pc = "fetch"
    /\ reconnects = 2
    /\ nthRetry = 1

C15_NoAttemptBeforeFirstPull ==
    ~pulled => /\ pc = "idle"
               /\ conn = "none"
               /\ stream = "null"
               /\ reconnects = 0

\* The first connection attempt, in flight during the first pull.
C15_Witness ==
    /\ pulled
    /\ result = NoResult
    /\ pc = "fetch"
    /\ ctx = "first"
    /\ reconnects = 0

\* C16: a second call of close() right after a first one changes nothing,
\* in every state in which close() can be called (before the first pull,
\* during a pull, after end-of-sequence).
C16_CloseIdempotent ==
    AfterClose(AfterClose(Here)) = AfterClose(Here)

\* close() has been called after a pull resolved as end-of-sequence, and
\* can be called again.
C16_Witness ==
    /\ closeCalled
    /\ pc = "idle"
    /\ result = DoneResult
    /\ returned # << >>
    /\ Here = AfterClose(Here)

\* C22: a pull returns end-of-sequence only when the cancellation signal
\* has been triggered, or retry is disabled, or the retry budget is spent
\* (retryCount >= maxRetries).
C22_EndOnlyWhenNoRetryLeft ==
    [][(pc # "idle" /\ pc' = "idle" /\ result' = DoneResult)
         => \/ aborted'
            \/ ~options.retryStrategy
            \/ retryCount' >= options.maxRetries]_vars

\* A pull has ended the sequence with retry enabled and no cancellation:
\* the budget of one retry was spent.
C22_Witness ==
    /\ pc = "idle"
    /\ result = DoneResult
    /\ options.retryStrategy
    /\ options.maxRetries = 1
    /\ retryCount = 1
    /\ ~aborted
    /\ ~closeCalled

\* C23: once the cancellation signal has been triggered it stays
\* triggered, no backoff wait is started and no connection is established.
C23_NoRetryAfterAbort ==
    [][/\ aborted => aborted'
       /\ aborted' => /\ ~(pc # "wait" /\ pc' = "wait")
                      /\ ~(pc # "read" /\ pc' = "read" /\ conn' = "open")]_vars

\* After the signal was triggered by its holder, a pull made a connection
\* attempt, which was aborted, and the pull rejected without a wait.
C23_Witness ==
    /\ aborted
    /\ ~closeCalled
    /\ pc = "idle"
    /\ result = Thrown("AbortError")
    /\ tries = 1
    /\ retryCount >= 1
    /\ returned # << >>

\* C24: when the stream ends cleanly while retry is enabled, budget is left
\* and the signal is not triggered, the pull that sees the end does not
\* settle: it starts a backoff wait, then opens a connection that carries
\* the cursor, and reads from it.
C24_CleanEndReconnects ==
    [][/\ (/\ pc = "read" /\ reader = "set"
           /\ queue = << >> /\ conn = "ended"
           /\ options.retryStrategy
           /\ retryCount < options.maxRetries
           /\ ~aborted
           /\ pc' # pc)
          => (pc' = "wait" /\ ctx' = "done" /\ lastDelay' > 0)
       /\ (pc = "wait" /\ ctx = "done" /\ ~aborted /\ pc' # pc)
          => (/\ pc' = "fetch"
              /\ lastHeader' = (IF Truthy(currentLastEventId)
                                 THEN currentLastEventId ELSE Undefined))
       /\ (pc = "fetch" /\ ctx = "done" /\ pc' = "read")
          => (conn' = "open" /\ reader' = "set" /\ queue' = << >>)]_vars

\* The stream ended after event 1; the pull has waited and is opening a
\* connection that carries the id 1.
C24_Witness ==
    /\ options.retryStrategy
    /\ ~aborted
    /\ ~closeCalled
    /\ pc = "fetch"
    /\ ctx = "done"
    /\ conn = "ended"
    /\ returned = <<1>>
    /\ currentLastEventId = Some(IdOf(1))
    /\ lastHeader = Some(IdOf(1))

\* C25: a connection attempt that succeeds sets the retry count to 0, so
\* the wait after the end of that connection is initialRetryDelay and the
\* first of a full budget; an attempt that fails never lowers the count.
C25_SuccessResetsRetryCount ==
    [][/\ (pc = "fetch" /\ pc' = "read") => retryCount' = 0
       /\ (pc = "read" /\ pc' = "wait")
          => (/\ retryCount = 0
              /\ retryCount' = 1
              /\ nthRetry' = 1
              /\ lastDelay' = options.initialRetryDelay)
       /\ (pc = "fetch" /\ pc' # "read") => retryCount' >= retryCount]_vars

\* With a budget of one retry, a reconnect was made earlier and the pull
\* waits again, for initialRetryDelay, after the end of a connection.
C25_Witness ==
    /\ options.retryStrategy
    /\ options.maxRetries = 1
    /\ reconnects >= 1
    /\ pc = "wait"
    /\ conn = "ended"
    /\ retryCount = 1
    /\ lastDelay = options.initialRetryDelay

\* C26: the cursor changes only when a pull returns an event, and then to
\* the id of that event; a cursor that has a value never becomes unset.
\* Failed attempts, waits, reconnects, changes of the retry count, close()
\* and events without an id leave it as it is.
C26_CursorOnlyReplacedByReturnedId ==
    [][/\ currentLastEventId' # currentLastEventId
          => /\ pc = "read" /\ pc' = "idle"
             /\ result' = EventResult
             /\ queue # << >>
             /\ returned' = Append(returned, Head(queue).n)
             /\ Head(queue).id = currentLastEventId'
       /\ currentLastEventId # Undefined
          => currentLastEventId' # Undefined]_vars

\* The cursor is still the id 1 after a reconnect, an event 2 without an id
\* and close().
C26_Witness ==
    /\ currentLastEventId = Some(IdOf(1))
    /\ returned = <<1, 2>>
    /\ lastIdField = Some(IdOf(1))
    /\ reconnects >= 1
    /\ closeCalled

\* C33: the retry count is never negative and never above maxRetries: it
\* is incremented only after shouldRetry() has passed.
C33_RetryCountWithinBudget ==
    /\ 0 <= retryCount
    /\ retryCount <= options.maxRetries
    /\ ~options.retryStrategy => retryCount = 0

\* With maxRetries = 2 the count has reached 2 and the attempt made then
\* has failed: the pull has rejected and the count is still 2.
C33_Witness ==
    /\ options.retryStrategy
    /\ options.maxRetries = 2
    /\ retryCount = 2
    /\ pc = "idle"
    /\ result = Thrown("Error")

\* C34: end-of-sequence is final: once a pull has resolved as end-of-
\* sequence, no connection attempt and no backoff wait is started, and
\* every later pull resolves as end-of-sequence (none returns an event).
C34_EndIsFinal ==
    [][result = DoneResult
         => /\ pc' \notin {"fetch", "wait"}
            /\ result' = DoneResult]_vars

\* C35: return() between two pulls of a streaming iterator cancels the
\* connection and releases the reader; after it no connection attempt and
\* no backoff wait is started and every pull resolves as end-of-sequence.
C35_ReturnTerminates ==
    [][/\ (~afterReturn /\ afterReturn')
          => (conn' = "cancelled" /\ reader' = "null")
       /\ (afterReturn /\ ~closeCalled)
          => /\ pc' \notin {"fetch", "wait"}
             /\ (pc # "idle" /\ pc' = "idle") => result' = DoneResult]_vars

\* C36: at most one abort listener of a backoff wait is registered on the
\* signal, and none when no wait is running.
C36_OneAbortListener ==
    /\ listeners <= 1
    /\ pc # "wait" => listeners = 0

\* C27: with retry enabled, maxRetries = N and a transport whose every
\* attempt fails, the pull makes N + 1 connection attempts and N backoff
\* waits, the n-th of min(initialRetryDelay * 2^(n-1), maxRetryDelay), and
\* then resolves.
C27_FailingPullResolves ==
    [][/\ (pc # "wait" /\ pc' = "wait")
          => lastDelay' = Min(options.initialRetryDelay * Pow2(tries - 1),
                              options.maxRetryDelay)
       /\ (result = NoResult /\ pc # "idle" /\ pc' = "idle")
          => /\ tries' = options.maxRetries + 1
             /\ nthRetry' = options.maxRetries
             /\ result' = DoneResult]_vars

(***************************************************************************)
(* The pipeline fed chunk by chunk                                         *)
(***************************************************************************)
Str_data_a  == <<"d", "a", "t", "a", ":", "a", "\n">>
Str_data_sb == <<"d", "a", "t", "a", ":", " ", "b">>
Str_id_7    == <<"i", "d", ":", "7", "\n">>
Str_comment == <<":", "c", "\n">>
Str_nl      == <<"\n">>

Pieces == {Str_data_a, Str_data_sb, Str_id_7, Str_comment, Str_nl}

RECURSIVE Concat(_)
Concat(ps) == IF Len(ps) = 0 THEN << >> ELSE Head(ps) \o Concat(Tail(ps))

Documents ==
    {Concat(ps) : ps \in UNION {[1..n -> Pieces] : n \in 0..MaxPieces}}

PipeInit ==
    /\ doc \in Documents
    /\ fed = 0
    /\ buffer = << >>
    /\ frames = << >>
    /\ emitted = << >>
    /\ flushed = FALSE
    /\ cutInDelimiter = FALSE
    /\ FrameIdle
    /\ Created
    /\ Constructed(DefaultOptions)

\* The transport delivers the next n characters as one chunk (n = 0: an
\* empty chunk); the chunk runs through the Framer and then the Parser.
FeedChunk ==
    /\ ~flushed
    /\ \E n \in 0..(Len(doc) - fed) :
         LET chunk == SubSeq(doc, fed + 1, fed + n)
             out   == SplitTransform(buffer, chunk)
         IN  /\ fed' = fed + n
             /\ buffer' = out.buffer
             /\ frames' = frames \o out.frames
             /\ emitted' = emitted \o ParseFrames(out.frames)
             /\ cutInDelimiter' =
                   (cutInDelimiter \/ (/\ 0 < fed + n
                                       /\ fed + n < Len(doc)
                                       /\ doc[fed + n] = NL
                                       /\ doc[fed + n + 1] = NL))
    /\ UNCHANGED <<doc, flushed>>
    /\ UNCHANGED <<iterVars, netVars, histVars>>
    /\ UNCHANGED <<countVars, frameVars, cfgVars>>

\* The transport ends the stream: flush() of the Framer, then the Parser.
EndOfStream ==
    /\ ~flushed
    /\ fed = Len(doc)
    /\ flushed' = TRUE
    /\ frames' = frames \o SplitFlush(buffer)
    /\ emitted' = emitted \o ParseFrames(SplitFlush(buffer))
    /\ UNCHANGED <<doc, fed, buffer, cutInDelimiter>>
    /\ UNCHANGED <<iterVars, netVars, histVars>>
    /\ UNCHANGED <<countVars, frameVars, cfgVars>>

PipeNext == FeedChunk \/ EndOfStream

PipeSpec == PipeInit /\ [][PipeNext]_vars

\* The events of a document fed as one single chunk and then ended.
DecodeWhole(d) ==
    LET out == SplitTransform(<< >>, d)
    IN  ParseFrames(out.frames) \o ParseFrames(SplitFlush(out.buffer))

\* C1: whatever the chunking of the document (empty chunks and splits
\* inside the delimiter or a field name included), once the stream has
\* ended the events decoded are exactly those of the document fed as one
\* single chunk.
C1_ChunkingInvariant == flushed => emitted = DecodeWhole(doc)

\* A two-event document was fed in several chunks, one boundary inside the
\* delimiter that separates the two frames.
C1_Witness ==
    /\ flushed
    /\ cutInDelimiter
    /\ Len(emitted) = 2
    /\ doc = Str_data_a \o Str_nl \o Str_id_7 \o Str_data_sb
    /\ emitted[2].id = <<<<"7">>>>

\* The text with every line break written as `ending`.
RECURSIVE WrittenWith(_, _)
WrittenWith(text, ending) ==
    IF Len(text) = 0 THEN << >>
    ELSE (IF Head(text) = NL THEN ending ELSE <<Head(text)>>)
         \o WrittenWith(Tail(text), ending)

\* C21: the document written with CR LF or with CR line endings decodes to
\* the same events as the document written with LF line endings.
C21_LineEndingsEquivalent ==
    flushed => /\ DecodeWhole(WrittenWith(doc, <<"\r", "\n">>)) = emitted
               /\ DecodeWhole(WrittenWith(doc, <<"\r">>)) = emitted

\* The text fed so far.
Fed == SubSeq(doc, 1, fed)

\* C28: after any chunk the buffer holds no delimiter: it is the text fed
\* after the last delimiter, every frame before it has been emitted, and
\* no emitted frame contains the delimiter.
C28_BufferHoldsOneTrailingFrame ==
    LET k == fed - Len(buffer)
    IN  /\ IndexOfFrom(buffer, Delimiter, 1) = 0
        /\ k >= 0
        /\ buffer = SubSeq(Fed, k + 1, fed)
        /\ k = 0 \/ (k >= 2 /\ Fed[k - 1] = NL /\ Fed[k] = NL)
        /\ \A i \in 1..Len(frames) : IndexOfFrom(frames[i], Delimiter, 1) = 0
        /\ ~flushed =>
             frames = ValidOnly(SubSeq(StrSplit(Fed, Delimiter), 1,
                                       Len(StrSplit(Fed, Delimiter)) - 1))

\* A chunk ended between the two line breaks of a delimiter; the next one
\* completed it: the frame is out and the buffer holds what follows.
C28_Witness ==
    /\ ~flushed
    /\ cutInDelimiter
    /\ doc = Str_data_a \o Str_nl \o Str_id_7 \o Str_data_sb
    /\ frames = <<<<"d", "a", "t", "a", ":", "a">>>>
    /\ buffer = <<"i", "d", ":", "7", NL, "d">>

\* C29: when the stream ends, the text left in the buffer is emitted as a
\* last frame and parsed: the document decodes to the events of the same
\* document followed by a blank line.
C29_ResidualFlushed ==
    flushed => emitted = DecodeWhole(doc \o Delimiter)

\* The last message, sent without a line break after it, has given its
\* event.
C29_Witness ==
    /\ flushed
    /\ doc = Str_data_a \o Str_nl \o Str_data_sb
    /\ Len(emitted) = 2
    /\ emitted[2].data = <<"b">>

(***************************************************************************)
(* useSSEStream called with the caller's options                           *)
(***************************************************************************)
Alpha ==
    {"a", "b", "c", "d", "e", "f", "g", "h", "i", "j", "k", "l", "m", "n",
     "o", "p", "q", "r", "s", "t", "u", "v", "w", "x", "y", "z"}

Str_http  == <<"h", "t", "t", "p">>

Str_https == <<"h", "t", "t", "p", "s">>

\* The schemes whose URLs must name a host.
SpecialSchemes == {Str_http, Str_https, <<"f", "t", "p">>, <<"w", "s">>,
                   <<"w", "s", "s">>}

RECURSIVE StripSlashes(_)
StripSlashes(t) ==
    IF StartsWith(t, "/") THEN StripSlashes(Tail(t)) ELSE t

\* new URL(text) without a base: Undefined when it throws, else the
\* protocol of the URL. The text needs a scheme of letters before its
\* first colon, and a host after a special scheme.
NewURL(text) ==
    LET i == IndexOfFrom(text, <<":">>, 1)
    IN  IF i <= 1 THEN Undefined
        ELSE LET scheme == SubSeq(text, 1, i - 1)
                 rest   == SubSeq(text, i + 1, Len(text))
             IN  IF \E k \in 1..Len(scheme) : scheme[k] \notin Alpha
                   THEN Undefined
                 ELSE IF scheme \in SpecialSchemes /\ StripSlashes(rest) = << >>
                   THEN Undefined
                 ELSE Some(scheme \o <<":">>)

\* Lines 18-30: the url is missing or empty, does not parse, or has another
\* protocol than http: and https: (the error thrown in the try block is
\* caught and thrown again).
UrlRejected(o) ==
    \/ ~Truthy(o.url)
    \/ NewURL(o.url[1]) = Undefined
    \/ NewURL(o.url[1])[1] \notin {Str_http \o <<":">>, Str_https \o <<":">>}

\* a ?? b
OrElse(a, b) == IF a = Undefined THEN b ELSE a[1]

\* Lines 33-43: the defaults.
Normalized(o) ==
    [retryStrategy      |-> OrElse(o.retryStrategy, TRUE),
     maxRetries         |-> OrElse(o.maxRetries, Infinity),
     hasAbortController |-> o.hasAbortController,
     lastEventId        |-> o.lastEventId,
     initialRetryDelay  |-> OrElse(o.initialRetryDelay,
                                   DefaultInitialRetryDelay),
     maxRetryDelay      |-> OrElse(o.maxRetryDelay, DefaultMaxRetryDelay)]

\* The check of line 50 with equal delays refused too.
DelaysInvertedOrEqual(n) == n.maxRetryDelay <= n.initialRetryDelay

\* Line 50, on the normalised options.
DelaysInverted(n) == n.maxRetryDelay < n.initialRetryDelay

\* Lines 46-56, on the normalised options.
ValidationFails(n) ==
    \/ n.initialRetryDelay < 0
    \/ DelaysInverted(n)
    \/ n.maxRetries < 0

\* useSSEStream(o) throws.
UseSSEStreamThrows(o) ==
    UrlRejected(o) \/ ValidationFails(Normalized(o))

Str_host == <<":", "/", "/", "h", "/", "s">>

\* The urls tried: none, the empty string, a path, URLs with several
\* schemes, an http URL without a host.
Urls ==
    {Undefined,
     Some(<< >>),
     Some(<<"/", "s">>),
     Some(Str_http \o Str_host),
     Some(Str_https \o Str_host),
     Some(<<"f", "t", "p">> \o Str_host),
     Some(<<"m", "a", "i", "l", "t", "o", ":", "a">>),
     Some(Str_http \o <<":", "/", "/">>)}

\* The options objects tried.
RawOptions ==
    { [url                |-> u,
       retryStrategy      |-> rs,
       maxRetries         |-> mr,
       hasAbortController |-> FALSE,
       lastEventId        |-> Undefined,
       initialRetryDelay  |-> ird,
       maxRetryDelay      |-> mrd] :
         u   \in Urls,
         rs  \in {Undefined, Some(FALSE)},
         mr  \in {Undefined, Some(0 - 1), Some(0), Some(2)},
         ird \in {Undefined, Some(0 - 1), Some(0), Some(1000), Some(40000)},
         mrd \in {Undefined, Some(0 - 1), Some(0), Some(1000), Some(30000)} }

\* Before the call there is no iterator: its fields hold the values every
\* new iterator starts with.
ConfigInit ==
    /\ rawOptions \in RawOptions
    /\ outcome = "none"
    /\ PipeIdle
    /\ FrameIdle
    /\ Constructed(DefaultOptions)

\* The caller calls useSSEStream(rawOptions): index.ts lines 17-59, and the
\* constructor, sse-stream.ts lines 59-62.
UseSSEStream ==
    /\ outcome = "none"
    /\ IF UseSSEStreamThrows(rawOptions)
       THEN /\ outcome' = "thrown"
            /\ UNCHANGED <<options, currentLastEventId>>
       ELSE /\ outcome' = "iterator"
            /\ options' = Normalized(rawOptions)
            /\ currentLastEventId' = Normalized(rawOptions).lastEventId
    /\ UNCHANGED <<retryCount, stream, reader, aborted, pc, ctx, result,
                   listeners, rawOptions>>
    /\ UNCHANGED <<netVars, histVars, pipeVars, countVars, frameVars>>

ConfigNext == UseSSEStream

ConfigSpec == ConfigInit /\ [][ConfigNext]_vars

\* A url the claim accepts: http:// or https:// followed by a host.
AcceptableUrl(u) ==
    /\ u # Undefined
    /\ \E scheme \in {Str_http, Str_https} :
         LET head == scheme \o <<":", "/", "/">>
         IN  /\ Len(u[1]) > Len(head)
             /\ SubSeq(u[1], 1, Len(head)) = head

\* A numeric option after its default is applied.
Given(v, default) == IF v = Undefined THEN default ELSE v[1]

\* The configurations the claim says are refused.
Refused(o) ==
    \/ ~AcceptableUrl(o.url)
    \/ Given(o.initialRetryDelay, 1000) < 0
    \/ Given(o.maxRetryDelay, 30000) < Given(o.initialRetryDelay, 1000)
    \/ (o.maxRetries # Undefined /\ o.maxRetries[1] < 0)

\* C17: useSSEStream throws, returning no iterator and making no connection
\* attempt, exactly when the url is missing, malformed or not http/https,
\* or initialRetryDelay < 0, or maxRetryDelay < initialRetryDelay after the
\* defaults 1000 and 30000, or maxRetries < 0; for every other
\* configuration it returns an iterator, which has made no attempt either.
C17_ThrowsExactlyOnBadConfiguration ==
    outcome # "none" =>
      /\ (outcome = "thrown") <=> Refused(rawOptions)
      /\ pc = "idle"
      /\ conn = "none"
      /\ ~pulled

\* Refused only because the default maxRetryDelay of 30000 is below the
\* initialRetryDelay given.
C17_Witness ==
    /\ outcome = "thrown"
    /\ AcceptableUrl(rawOptions.url)
    /\ rawOptions.initialRetryDelay = Some(40000)
    /\ rawOptions.maxRetryDelay = Undefined
    /\ rawOptions.maxRetries = Undefined

(***************************************************************************)
(* One frame through createParseStream                                     *)
(***************************************************************************)
\* Lines a frame is written with.
MaxLines == 3

\* A line as its writer means it: a field name, a colon (or none), the one
\* optional space and the value. An empty name with a colon is a comment.
\* A value that begins with a space is written after the optional space.
FieldLine(name, space, value) ==
    [name |-> name, colon |-> TRUE, space |-> space, value |-> value]

BareLine(text) ==
    [name |-> text, colon |-> FALSE, space |-> FALSE, value |-> << >>]

Lines ==
    {FieldLine(F_data, TRUE, <<"a">>),
     FieldLine(F_data, TRUE, <<"b">>),
     FieldLine(F_data, FALSE, <<"a">>),
     FieldLine(F_data, FALSE, << >>),
     FieldLine(F_data, TRUE, <<" ", "x">>),
     FieldLine(F_data, TRUE, <<"a", ":", "b">>),
     FieldLine(F_event, TRUE, <<"e">>),
     FieldLine(F_event, FALSE, <<"f">>),
     FieldLine(F_id, TRUE, <<"7">>),
     FieldLine(F_id, FALSE, << >>),
     FieldLine(F_id, TRUE, <<"8", NUL>>),
     FieldLine(F_retry, TRUE, <<"1", "2">>),
     FieldLine(F_retry, TRUE, <<"-", "5">>),
     FieldLine(F_retry, FALSE, <<"5", "x">>),
     FieldLine(F_retry, TRUE, <<"x">>),
     FieldLine(<<"f", "o", "o">>, TRUE, <<"1">>),
     FieldLine(<< >>, FALSE, <<"c">>),
     BareLine(F_data)}

\* The text of a line.
Render(l) ==
    IF l.colon
    THEN l.name \o <<":">> \o (IF l.space THEN <<" ">> ELSE << >>) \o l.value
    ELSE l.name

\* The frame the Framer hands over: the lines, one line break between two.
FrameText(ls) == StrJoin([i \in 1..Len(ls) |-> Render(ls[i])], <<NL>>)

FrameInit ==
    /\ frame \in UNION {[1..n -> Lines] : n \in 1..MaxLines}
    /\ parsedDone = FALSE
    /\ parsedEvents = << >>
    /\ PipeIdle
    /\ Created
    /\ Constructed(DefaultOptions)

\* The frame goes through the transform of createParseStream.
ParseFrame ==
    /\ ~parsedDone
    /\ parsedDone' = TRUE
    /\ parsedEvents' = ParseTransform(FrameText(frame))
    /\ UNCHANGED frame
    /\ UNCHANGED <<iterVars, netVars, histVars, pipeVars, countVars, cfgVars>>

FrameNext == ParseFrame

FrameSpec == FrameInit /\ [][FrameNext]_vars

\* The lines of a frame that are field lines of the field `name`.
IsField(l, name) == l.colon /\ l.name = name

FieldLines(ls, name) == SelectSeq(ls, LAMBDA l : IsField(l, name))

\* The values of the data lines of a frame, in the order of the frame.
DataValues(ls) ==
    LET ds == FieldLines(ls, F_data)
    IN  [i \in 1..Len(ds) |-> ds[i].value]

\* C18: the data of the event of a frame is the values of all the data
\* lines of the frame, joined with line breaks in the order of the frame.
C18_DataJoinedInOrder ==
    (parsedDone /\ parsedEvents # << >>)
        => parsedEvents[1].data = StrJoin(DataValues(frame), <<NL>>)

\* The frame 'data: a', 'data: b' with a comment between has given the
\* data 'a', line break, 'b'.
C18_Witness ==
    /\ parsedDone
    /\ frame = <<FieldLine(F_data, TRUE, <<"a">>),
                 FieldLine(<< >>, FALSE, <<"c">>),
                 FieldLine(F_data, TRUE, <<"b">>)>>
    /\ Len(parsedEvents) = 1
    /\ parsedEvents[1].data = <<"a", NL, "b">>

\* C19: a frame yields one event when it has at least one data field line
\* and none otherwise.
C19_EventIffDataLine ==
    parsedDone =>
        Len(parsedEvents) = (IF FieldLines(frame, F_data) # << >> THEN 1 ELSE 0)

\* A frame of a comment, an id and an event line has given no event.
C19_Witness ==
    /\ parsedDone
    /\ frame = <<FieldLine(<< >>, FALSE, <<"c">>),
                 FieldLine(F_id, TRUE, <<"7">>),
                 FieldLine(F_event, TRUE, <<"e">>)>>
    /\ parsedEvents = << >>

\* A non-negative integer in decimal: one digit or more, nothing else.
IsNonNegativeInteger(value) ==
    Len(value) > 0 /\ \A i \in 1..Len(value) : IsDigit(value[i])

\* The retry of a frame: the number of its last retry line whose value is
\* a non-negative integer; Undefined without such a line.
RetryOf(ls) ==
    LET rs == SelectSeq(FieldLines(ls, F_retry),
                        LAMBDA l : IsNonNegativeInteger(l.value))
    IN  IF rs = << >> THEN Undefined
        ELSE DigitsPrefix(rs[Len(rs)].value, 0, FALSE)

\* C20: the retry of an emitted event is a non-negative integer, the one of
\* the last retry line of the frame whose value is a non-negative integer;
\* other retry lines are ignored.
C20_RetryNonNegativeInteger ==
    (parsedDone /\ parsedEvents # << >>)
        => /\ parsedEvents[1].retry = RetryOf(frame)
           /\ parsedEvents[1].retry # Undefined
                => parsedEvents[1].retry[1] >= 0

\* The value holds U+0000.
HasNul(value) == \E i \in 1..Len(value) : value[i] = NUL

\* The id of a frame: the value of its last id line that holds no U+0000;
\* Undefined without such a line.
ExpectedId(ls) ==
    LET ids == SelectSeq(FieldLines(ls, F_id), LAMBDA l : ~HasNul(l.value))
    IN  IF ids = << >> THEN Undefined ELSE Some(ids[Len(ids)].value)

\* C30: no emitted event has an id that holds U+0000: an id line whose
\* value holds it is ignored, the id of an earlier id line of the frame
\* stays, and the event of the frame is emitted all the same.
C30_NoNulInId ==
    parsedDone =>
        /\ \A i \in 1..Len(parsedEvents) :
              /\ parsedEvents[i].id # Undefined => ~HasNul(parsedEvents[i].id[1])
              /\ parsedEvents[i].id = ExpectedId(frame)
        /\ FieldLines(frame, F_data) # << >> => Len(parsedEvents) = 1

\* The frame 'id: 7', 'id: 8<U+0000>', 'data: a' has given an event of id 7.
C30_Witness ==
    /\ parsedDone
    /\ frame = <<FieldLine(F_id, TRUE, <<"7">>),
                 FieldLine(F_id, TRUE, <<"8", NUL>>),
                 FieldLine(F_data, TRUE, <<"a">>)>>
    /\ Len(parsedEvents) = 1
    /\ parsedEvents[1].id = Some(<<"7">>)

\* A line the parser is to drop: a line without a colon, a comment, a line
\* of an unknown field, a retry line whose value is not a non-negative
\* integer, an id line whose value holds U+0000.
IsAnomaly(l) ==
    \/ ~l.colon
    \/ l.name = << >>
    \/ l.name \notin {F_event, F_data, F_id, F_retry}
    \/ l.name = F_retry /\ ~IsNonNegativeInteger(l.value)
    \/ l.name = F_id /\ HasNul(l.value)

\* The frame without its i-th line.
Without(ls, i) == SubSeq(ls, 1, i - 1) \o SubSeq(ls, i + 1, Len(ls))

\* C31: a frame gives no event or one, and a frame with a line without a
\* colon, a comment, a line of an unknown field, an unparsable retry value
\* or an id with U+0000 gives the same event as the frame without that
\* line.
C31_AnomaliesAbsorbed ==
    parsedDone =>
        /\ Len(parsedEvents) <= 1
        /\ \A i \in 1..Len(frame) :
              IsAnomaly(frame[i])
                => parsedEvents = ParseTransform(FrameText(Without(frame, i)))

\* The event type of a frame: the value of its last event line, 'message'
\* without one.
EventTypeOf(ls) ==
    LET es == FieldLines(ls, F_event)
    IN  IF es = << >> THEN <<"m", "e", "s", "s", "a", "g", "e">>
        ELSE es[Len(es)].value

\* C32: the name of a field line is the text before the first colon and
\* its value the whole remainder less one leading space at most; the type
\* of the event is the value of the last event line of the frame, or
\* 'message' without one.
C32_FieldValueAndEventType ==
    (parsedDone /\ parsedEvents # << >>)
        => /\ parsedEvents[1].event = EventTypeOf(frame)
           /\ parsedEvents[1].data = StrJoin(DataValues(frame), <<NL>>)
           /\ parsedEvents[1].id = ExpectedId(frame)

\* 'event: e', 'event:f', 'data:  x' has given the event f of data ' x'.
C32_Witness ==
    /\ parsedDone
    /\ frame = <<FieldLine(F_event, TRUE, <<"e">>),
                 FieldLine(F_event, FALSE, <<"f">>),
                 FieldLine(F_data, TRUE, <<" ", "x">>)>>
    /\ Len(parsedEvents) = 1
    /\ parsedEvents[1].event = <<"f">>
    /\ parsedEvents[1].data = <<" ", "x">>

====
